---- MODULE Spec2Model ----
(***************************************************************************)
(* Model of src/seance3/orbits.py: the N-body force model                  *)
(* (equations_mouvement), the orbital initializer (vitesse_orbitale), the  *)
(* target buttons (draw_buttons, check_button_click) and the frame loop of *)
(* play_orbit (sliders, smoothing, integration, camera, trails).           *)
(*                                                                         *)
(* Numbers.  Python floats are binary64: finite precision, with the        *)
(* non-finite values inf and nan.  A float of the physics is modelled as a *)
(* record [fin, val]: a finite value on an integer grid, or the one        *)
(* non-finite value NaN (inf and nan are not told apart).  The UI scalars  *)
(* zoom and dt are always finite and are kept as integers on a fixed grid  *)
(* (zoom in hundredths, dt in seconds), every product by 0.15 or 0.2       *)
(* rounded to the nearest grid point as a float operation rounds to the    *)
(* nearest float.                                                          *)
(***************************************************************************)
EXTENDS Integers, Sequences, FiniteSets, TLC

VARIABLES
    pc,                    \* position of play_orbit / of the force-model call
    planetes_mass,         \* p["mass"] of every planet, in list order
    etoile,                \* the star: [mass, position]
    position,              \* p["position"] of every planet
    speed,                 \* p["speed"] of every planet
    trail,                 \* p["trail"] of every planet
    rayon_influence,       \* p["rayon_influence"]: <<>> is None, <<r>> a value
    state,                 \* the integrated state vector
    dstate,                \* the last derivative equations_mouvement returned
    sol_success,           \* sol.success of the last solve_ivp call
    dt, dt_target, dragging_time_slider,
    zoom, zoom_target, dragging_slider,
    camera_center, camera_target,
    func_zone_habitable,   \* "None" or "given"
    func_rayon_influence,  \* "None" or "given"
    r_int_pix, r_ext_pix,  \* <<>> is None, <<r>> a value
    running,
    event,                 \* the event the loop at line 261 processed last
    frame,                 \* completed frames
    raised_by,             \* what made play_orbit raise ("" while it has not)
    retargeted,            \* history: zoom_target was changed after the first frame
    hist                   \* history: per planet, its position at every completed frame

vars == <<pc, planetes_mass, etoile, position, speed, trail, rayon_influence,
          state, dstate, sol_success, dt, dt_target, dragging_time_slider,
          zoom, zoom_target, dragging_slider, camera_center, camera_target,
          func_zone_habitable, func_rayon_influence, r_int_pix, r_ext_pix,
          running, event, frame, raised_by, retargeted, hist>>

-----------------------------------------------------------------------------
(* Floats *)

F(v) == [fin |-> TRUE, val |-> v]

NaN == [fin |-> FALSE, val |-> 0]

IsFinite(a) == a.fin

Abs(i) == IF i < 0 THEN -i ELSE i

Min(a, b) == IF a < b THEN a ELSE b

\* a / b on the integer grid, rounded toward zero
QuotTrunc(a, b) ==
    IF (a >= 0) = (b > 0) THEN Abs(a) \div Abs(b) ELSE -(Abs(a) \div Abs(b))

\* a / b on the integer grid, rounded to nearest (ties away from zero)
QuotRound(a, b) ==
    IF (a >= 0) = (b > 0)
    THEN (2 * Abs(a) + Abs(b)) \div (2 * Abs(b))
    ELSE -((2 * Abs(a) + Abs(b)) \div (2 * Abs(b)))

\* the root of n between lo and hi (lo * lo <= n < hi * hi), by bisection
RECURSIVE ISqrtIn(_, _, _)
ISqrtIn(n, lo, hi) ==
    IF hi - lo <= 1 THEN lo
    ELSE LET mid == (lo + hi) \div 2
         IN IF mid * mid <= n THEN ISqrtIn(n, mid, hi) ELSE ISqrtIn(n, lo, mid)

\* floor of the square root of n >= 0 (n < 2^30)
ISqrt(n) == ISqrtIn(n, 0, 32768)

FAdd(a, b) == IF a.fin /\ b.fin THEN F(a.val + b.val) ELSE NaN

FSub(a, b) == IF a.fin /\ b.fin THEN F(a.val - b.val) ELSE NaN

FMul(a, b) == IF a.fin /\ b.fin THEN F(a.val * b.val) ELSE NaN

\* x / 0.0 is inf or nan for a numpy float64 (a warning, no exception)
FDiv(a, b) ==
    IF a.fin /\ b.fin /\ b.val # 0 THEN F(QuotTrunc(a.val, b.val)) ELSE NaN

\* np.sqrt of a negative number is nan (a warning, no exception)
FSqrt(a) == IF a.fin /\ a.val >= 0 THEN F(ISqrt(a.val)) ELSE NaN

\* np.hypot
FHypot(a, b) ==
    IF a.fin /\ b.fin THEN F(ISqrt(a.val * a.val + b.val * b.val)) ELSE NaN

FCube(a) == FMul(a, FMul(a, a))

-----------------------------------------------------------------------------
(* Force model: equations_mouvement *)

\* const.G.value, in the units of the grid
G == 1

\* idx = 4 * i of planet i (planets are numbered from 1, sequences from 1)
Idx(i) == 4 * (i - 1)

\* The inner loop over j (lines 101-111): acc is <<axi, ayi>> so far.
\* The pair loop without the guard of lines 108-109.
RECURSIVE PairLoopUnguarded(_, _, _, _, _)
PairLoopUnguarded(st, masses, i, j, acc) ==
    IF j > Len(masses) THEN acc
    ELSE IF i = j THEN PairLoopUnguarded(st, masses, i, j + 1, acc)
    ELSE
      LET dx  == FSub(st[Idx(i) + 1], st[Idx(j) + 1])
          dy  == FSub(st[Idx(i) + 2], st[Idx(j) + 2])
          rij == FHypot(dx, dy)
      IN PairLoopUnguarded(st, masses, i, j + 1,
           <<FAdd(acc[1], FDiv(FMul(F(-G * masses[j]), dx), FCube(rij))),
             FAdd(acc[2], FDiv(FMul(F(-G * masses[j]), dy), FCube(rij)))>>)

RECURSIVE PairLoop(_, _, _, _, _)
PairLoop(st, masses, i, j, acc) ==
    IF j > Len(masses) THEN acc
    ELSE IF i = j THEN PairLoop(st, masses, i, j + 1, acc)
    ELSE
      LET dx  == FSub(st[Idx(i) + 1], st[Idx(j) + 1])
          dy  == FSub(st[Idx(i) + 2], st[Idx(j) + 2])
          rij == FHypot(dx, dy)
      IN IF rij = F(0) THEN PairLoop(st, masses, i, j + 1, acc)
         ELSE PairLoop(st, masses, i, j + 1,
                <<FAdd(acc[1], FDiv(FMul(F(-G * masses[j]), dx), FCube(rij))),
                  FAdd(acc[2], FDiv(FMul(F(-G * masses[j]), dy), FCube(rij)))>>)

\* What line 112 writes into the slot of planet i: vxi, vyi, axi, ayi.
SlotDerivative(st, masses, M_star, i) ==
    LET xi  == st[Idx(i) + 1]
        yi  == st[Idx(i) + 2]
        vxi == st[Idx(i) + 3]
        vyi == st[Idx(i) + 4]
        r   == FHypot(xi, yi)
        a0  == <<FDiv(FMul(F(-G * M_star), xi), FCube(r)),
                 FDiv(FMul(F(-G * M_star), yi), FCube(r))>>
        a   == PairLoop(st, masses, i, 1, a0)
    IN <<vxi, vyi, a[1], a[2]>>

\* d[idx:idx+4] = vals
SetSlot(d, idx, vals) ==
    [k \in 1..Len(d) |-> IF k > idx /\ k <= idx + 4 THEN vals[k - idx] ELSE d[k]]

\* The outer loop over i (lines 95-112).
RECURSIVE PlanetLoop(_, _, _, _, _)
PlanetLoop(st, masses, M_star, i, d) ==
    IF i > Len(masses) THEN d
    ELSE PlanetLoop(st, masses, M_star, i + 1,
                    SetSlot(d, Idx(i), SlotDerivative(st, masses, M_star, i)))

equations_mouvement(st, masses, M_star) ==
    PlanetLoop(st, masses, M_star, 1, [k \in 1..Len(st) |-> F(0)])

-----------------------------------------------------------------------------
(* Orbital initializer: vitesse_orbitale *)

vitesse_orbitale(pos, m, M) ==
    LET x0 == pos[1]
        y0 == pos[2]
        r0 == FSqrt(FAdd(FMul(x0, x0), FMul(y0, y0)))
        v  == FSqrt(FDiv(F(G * (M + m)), r0))
    IN <<FMul(FDiv(FSub(F(0), y0), r0), v), FMul(FDiv(x0, r0), v)>>

-----------------------------------------------------------------------------
(* Sliders, smoothing, buttons *)

dt_min == 3600

dt_max == 3600 * 24 * 7

\* zoom = 1.0 on the zoom grid (hundredths)
ZoomOne == 100

zoom_min == ZoomOne \div 2

zoom_max == 80 * ZoomOne

slider_zoom_x == 50

slider_zoom_y == 30

slider_dt_x == 50

slider_dt_y == 70

\* slider_zoom_w, slider_dt_w
slider_w == 200

\* slider_zoom_h, slider_dt_h
slider_h == 10

\* handle_radius, time_handle_radius
handle_radius == 8

\* lines 201-204: the dt argument clamped into [dt_min, dt_max]
\* The clamp without its lower bound.
ClampDtUpperOnly(d) == IF d > dt_max THEN dt_max ELSE d

ClampDt(d) == IF d > dt_max THEN dt_max ELSE IF d < dt_min THEN dt_min ELSE d

\* line 299: zoom += 0.15 * (zoom_target - zoom)
\* A smoothing whose factor is above one.
SmoothZoomOvershoot(z, zt) == z + QuotRound(115 * (zt - z), 100)

SmoothZoom(z, zt) == z + QuotRound(15 * (zt - z), 100)

\* line 300: dt += 0.2 * (dt_target - dt)
SmoothDt(d, t) == d + QuotRound(2 * (t - d), 10)

\* np.clip
Clip(x, lo, hi) == IF x < lo THEN lo ELSE IF x > hi THEN hi ELSE x

\* lines 280-281 and 295-296: the target a drag to mouse abscissa mx sets
SliderValue(mx, sx, lo, hi) ==
    lo + QuotRound(Clip(mx - sx, 0, slider_w) * (hi - lo), slider_w)

RECURSIVE GCD(_, _)
GCD(a, b) == IF b = 0 THEN a ELSE GCD(b, a % b)

\* lines 268-269 and 286-287: np.hypot(mx - handle_x, my - (sy + h // 2)) < radius
\* with handle_x = sx + (target - lo) / (hi - lo) * w, compared exactly:
\* mx - handle_x = n / sp.
OnHandle(m, sx, sy, target, lo, hi) ==
    LET g  == GCD(hi - lo, slider_w)
        sp == (hi - lo) \div g
        wn == slider_w \div g
        n  == (m[1] - sx) * sp - (target - lo) * wn
        dy == m[2] - (sy + slider_h \div 2)
    IN /\ Abs(n) < handle_radius * sp
       /\ Abs(dy) < handle_radius
       /\ n * n + dy * dy * sp * sp < handle_radius * handle_radius * sp * sp

\* draw_buttons: the (rect, target) list; rect = <<left, top, w, h>>.  The
\* targets are planetes + [etoile]: target k <= n is planet k, n + 1 the star.
draw_buttons(ntargets) ==
    [i \in 1..ntargets |-> [rect |-> <<50, 120 + (i - 1) * (25 + 5), 100, 25>>, target |-> i]]

\* pygame.Rect.collidepoint: the right and bottom edges are outside
collidepoint(rect, m) ==
    /\ rect[1] <= m[1] /\ m[1] < rect[1] + rect[3]
    /\ rect[2] <= m[2] /\ m[2] < rect[2] + rect[4]

\* check_button_click; 0 is None
RECURSIVE ButtonLoop(_, _, _)
ButtonLoop(buttons, m, k) ==
    IF k > Len(buttons) THEN 0
    ELSE IF collidepoint(buttons[k].rect, m) THEN buttons[k].target
    ELSE ButtonLoop(buttons, m, k + 1)

check_button_click(buttons, m) == ButtonLoop(buttons, m, 1)

\* lines 273-274: if clicked_target: camera_target = clicked_target
\* The assignment of line 274 without the test of line 273.
ClickTargetAlways(cur, clicked) == clicked

ClickTarget(cur, clicked) == IF clicked # 0 THEN clicked ELSE cur

-----------------------------------------------------------------------------
(* Integration, camera, trail *)

\* the trail's capacity, line 373
TrailMax == 400

AllFinite(st) == \A k \in 1..Len(st) : st[k].fin

\* lines 226-232: the state vector of the planets, in list order
RECURSIVE BuildState(_, _, _)
BuildState(pos, spd, i) ==
    IF i > Len(pos) THEN <<>>
    ELSE pos[i] \o spd[i] \o BuildState(pos, spd, i + 1)

\* lines 311-316
\* A write-back that reads the second half of each slot.
PositionsOfShifted(st, n) == [i \in 1..n |-> <<st[Idx(i) + 3], st[Idx(i) + 4]>>]

PositionsOf(st, n) == [i \in 1..n |-> <<st[Idx(i) + 1], st[Idx(i) + 2]>>]

SpeedsOf(st, n) == [i \in 1..n |-> <<st[Idx(i) + 3], st[Idx(i) + 4]>>]

\* One step of the right-hand side over the whole span, and over half of it.
StepBy(st, d, den) ==
    [k \in 1..Len(st) |->
        IF st[k].fin /\ d[k].fin THEN F(st[k].val + QuotTrunc(d[k].val, den)) ELSE NaN]

\* sp.integrate.solve_ivp(equations_mouvement, tspan, state, ...) is library
\* code.  Its outcomes: success with the state at the end of the span; failure
\* (status -1, no exception) with sol.y[:, -1] the last accepted internal
\* step, which is the initial state or a state part of the way; a ValueError
\* for a non-finite initial state.  A right-hand side that is non-finite makes
\* every step be rejected: failure at the initial state.
solve_ivp(st, masses, M_star, mayFail) ==
    LET d    == equations_mouvement(st, masses, M_star)
        full == StepBy(st, d, 1)
        half == StepBy(st, d, 2)
    IN IF ~AllFinite(st)
       THEN {[kind |-> "raise", success |-> FALSE, y |-> st]}
       ELSE IF ~AllFinite(full)
       THEN {[kind |-> "return", success |-> FALSE, y |-> st]}
       ELSE {[kind |-> "return", success |-> TRUE, y |-> full]}
            \cup (IF mayFail
                  THEN {[kind |-> "return", success |-> FALSE, y |-> st],
                        [kind |-> "return", success |-> FALSE, y |-> half]}
                  ELSE {})

\* lines 321-324
TargetPosition(target, pos, star) ==
    IF target <= Len(pos) THEN pos[target] ELSE star.position

\* A camera that centres on the star whatever body is tracked.
CameraCenterOnStar(target, pos, star) ==
    IF target = 0 THEN <<F(0), F(0)>> ELSE star.position

CameraCenter(target, pos, star) ==
    IF target = 0 THEN <<F(0), F(0)>> ELSE TargetPosition(target, pos, star)

\* A buffer that drops its newest entry when full.
TrailAppendPopLast(t, p) ==
    LET a == Append(t, p) IN IF Len(a) > TrailMax THEN SubSeq(a, 1, TrailMax) ELSE a

\* lines 372-374
TrailAppend(t, p) ==
    LET a == Append(t, p) IN IF Len(a) > TrailMax THEN Tail(a) ELSE a

\* the pair func_zone_habitable returns when it returns
ZoneRadii == <<2, 5>>

\* int(r * SCALE * zoom), SCALE taken as one pixel per grid unit
RadiusPix(r, z) == QuotTrunc(r * z, ZoomOne)

\* An except clause that sets the radii to None and goes on.
ZoneHabitableSwallow(res, z) ==
    IF res = "ok"
    THEN [pc |-> "draw", r_int_pix |-> <<RadiusPix(ZoneRadii[1], z)>>,
          r_ext_pix |-> <<RadiusPix(ZoneRadii[2], z)>>, raised_by |-> ""]
    ELSE [pc |-> "draw", r_int_pix |-> <<>>, r_ext_pix |-> <<>>, raised_by |-> ""]

\* lines 340-351: the frame's call of func_zone_habitable, which returns
\* ("ok") or raises ("raise")
ZoneHabitableFrame(res, z) ==
    IF res = "ok"
    THEN [pc |-> "draw", r_int_pix |-> <<RadiusPix(ZoneRadii[1], z)>>,
          r_ext_pix |-> <<RadiusPix(ZoneRadii[2], z)>>, raised_by |-> ""]
    ELSE [pc |-> "raised", r_int_pix |-> <<>>, r_ext_pix |-> <<>>,
          raised_by |-> "func_zone_habitable in frame"]

-----------------------------------------------------------------------------
(* Bounds and inputs *)

\* frames the loop is followed for
MaxFrames == 2

\* frames a session at the zoom slider is followed for
ZoomFrames == 7

\* frames a session at the time slider is followed for
TimeFrames == 3

\* frames of the long run that fills the trails: more than TrailMax
TrailFrames == 402

Origin == <<F(0), F(0)>>

Star(m) == [mass |-> m, position |-> Origin]

\* planetes_dict and etoile_dict: valid systems ...
GoodConfigs ==
    { [pos |-> << <<F(4), F(0)>> >>, mass |-> <<1>>, star |-> Star(16)],
      [pos |-> << <<F(4), F(0)>>, <<F(0), F(-6)>> >>, mass |-> <<1, 2>>, star |-> Star(16)],
      [pos |-> << <<F(0), F(3)>>, <<F(-5), F(0)>> >>, mass |-> <<2, 1>>,
       star |-> [mass |-> 16, position |-> <<F(1), F(0)>>]] }

\* ... and systems with a mass <= 0 or a planet at the star's position
BadConfigs ==
    { [pos |-> << <<F(4), F(0)>> >>, mass |-> <<0>>, star |-> Star(16)],
      [pos |-> << <<F(4), F(0)>> >>, mass |-> <<-1>>, star |-> Star(16)],
      [pos |-> << <<F(4), F(0)>> >>, mass |-> <<1>>, star |-> Star(0)],
      [pos |-> << <<F(4), F(0)>> >>, mass |-> <<1>>, star |-> Star(-16)],
      [pos |-> << <<F(0), F(0)>> >>, mass |-> <<1>>, star |-> Star(16)] }

\* values of the dt argument: below, at, inside, at and above the bounds
DtArgs == {10, 3600, 86400, 604800, 1000000}

\* mouse positions: the zoom handle at zoom_target = 1.0, the right end of the
\* zoom slider, the time handle at dt_target = 3600, 86400 and 604800, the
\* three first buttons, the gap between two buttons, and away from it all
ZoomPoints == {<<51, 35>>, <<250, 35>>}

TimePoints == {<<51, 75>>, <<77, 75>>, <<250, 75>>}

ButtonPoints == {<<60, 130>>, <<60, 160>>, <<60, 190>>, <<60, 147>>}

FarPoints == {<<300, 300>>, <<10, 35>>}

EventsAt(points) ==
    {[type |-> t, pos |-> m] : t \in {"MOUSEBUTTONDOWN", "MOUSEMOTION"}, m \in points}

NoEvent == [type |-> "", pos |-> <<0, 0>>]

QuitEvent == [type |-> "QUIT", pos |-> <<0, 0>>]

UpEvent == [type |-> "MOUSEBUTTONUP", pos |-> <<0, 0>>]

\* the events of a session that uses the buttons, the zoom slider, the time slider
ClickEvents == {QuitEvent, UpEvent} \cup EventsAt(ButtonPoints)

ZoomEvents == {QuitEvent, UpEvent} \cup EventsAt(ZoomPoints \cup FarPoints)

TimeEvents == {QuitEvent, UpEvent} \cup EventsAt(TimePoints \cup FarPoints)

\* what a call of a caller-supplied function does
HookOutcomes == {"ok", "raise"}

\* the value func_rayon_influence returns when it returns
InfluenceRadius == <<3>>

-----------------------------------------------------------------------------
(* play_orbit *)

NPlanets == Len(planetes_mass)

\* No local of play_orbit is set yet.
NoLocals ==
    /\ speed = <<>> /\ trail = <<>> /\ rayon_influence = <<>>
    /\ dstate = <<>> /\ sol_success = TRUE
    /\ dt_target = 0 /\ dragging_time_slider = FALSE
    /\ zoom = 0 /\ zoom_target = 0 /\ dragging_slider = FALSE
    /\ camera_center = Origin /\ camera_target = 0
    /\ r_int_pix = <<>> /\ r_ext_pix = <<>>
    /\ running = FALSE /\ event = NoEvent /\ frame = 0
    /\ raised_by = "" /\ retargeted = FALSE /\ hist = <<>>

\* The state at the call of play_orbit: the arguments, and no local yet.
InitWith(configs, dtArgs, hooks) ==
    /\ pc = "start"
    /\ \E c \in configs :
         /\ planetes_mass = c.mass
         /\ etoile = c.star
         /\ position = c.pos
    /\ dt \in dtArgs
    /\ func_zone_habitable \in hooks
    /\ func_rayon_influence \in hooks
    /\ state = <<>>
    /\ NoLocals

\* lines 182-253: everything before the frame loop
Setup(outcomes) ==
    /\ pc = "start"
    /\ dt' = ClampDt(dt)
    /\ dt_target' = dt'
    /\ dragging_time_slider' = FALSE
    /\ zoom' = ZoomOne
    /\ zoom_target' = zoom'
    /\ dragging_slider' = FALSE
    /\ camera_center' = Origin
    /\ camera_target' = 0
    /\ trail' = [i \in 1..NPlanets |-> <<>>]
    /\ hist' = [i \in 1..NPlanets |-> <<>>]
    /\ speed' = [i \in 1..NPlanets |->
                    vitesse_orbitale(position[i], planetes_mass[i], etoile.mass)]
    /\ state' = BuildState(position, speed', 1)
    /\ \E zr \in outcomes, ir \in outcomes :
         IF func_zone_habitable = "given" /\ zr = "raise"
         THEN /\ pc' = "raised"
              /\ raised_by' = "func_zone_habitable at setup"
              /\ UNCHANGED <<r_int_pix, r_ext_pix, rayon_influence, running>>
         ELSE /\ r_int_pix' = IF func_zone_habitable = "given"
                              THEN <<RadiusPix(ZoneRadii[1], zoom')>> ELSE <<>>
              /\ r_ext_pix' = IF func_zone_habitable = "given"
                              THEN <<RadiusPix(ZoneRadii[2], zoom')>> ELSE <<>>
              /\ IF func_rayon_influence = "given" /\ ir = "raise"
                 THEN /\ pc' = "raised"
                      /\ raised_by' = "func_rayon_influence at setup"
                      /\ UNCHANGED <<rayon_influence, running>>
                 ELSE /\ rayon_influence' =
                           [i \in 1..NPlanets |->
                               IF func_rayon_influence = "given"
                               THEN InfluenceRadius ELSE <<>>]
                      /\ running' = TRUE
                      /\ pc' = "loop"
                      /\ UNCHANGED raised_by
    /\ UNCHANGED <<planetes_mass, etoile, position, dstate, sol_success,
                   func_zone_habitable, func_rayon_influence, event, frame, retargeted>>

\* line 256: while running
LoopTop(maxFrames) ==
    /\ pc = "loop"
    /\ running => frame < maxFrames
    /\ pc' = IF running THEN "events" ELSE "returned"
    /\ UNCHANGED <<planetes_mass, etoile, position, speed, trail, rayon_influence,
                   state, dstate, sol_success, dt, dt_target, dragging_time_slider,
                   zoom, zoom_target, dragging_slider, camera_center, camera_target,
                   func_zone_habitable, func_rayon_influence, r_int_pix, r_ext_pix,
                   running, event, frame, raised_by, retargeted, hist>>

\* lines 261-296: one event of the frame's list
HandleEvent(e) ==
    /\ pc = "events"
    /\ event' = e
    /\ running' = IF e.type = "QUIT" THEN FALSE ELSE running
    /\ dragging_slider' =
         IF e.type = "MOUSEBUTTONDOWN"
            /\ OnHandle(e.pos, slider_zoom_x, slider_zoom_y, zoom_target, zoom_min, zoom_max)
         THEN TRUE
         ELSE IF e.type = "MOUSEBUTTONUP" THEN FALSE ELSE dragging_slider
    /\ camera_target' =
         IF e.type = "MOUSEBUTTONDOWN"
         THEN ClickTarget(camera_target,
                          check_button_click(draw_buttons(NPlanets + 1), e.pos))
         ELSE camera_target
    /\ zoom_target' =
         IF e.type = "MOUSEMOTION" /\ dragging_slider
         THEN SliderValue(e.pos[1], slider_zoom_x, zoom_min, zoom_max)
         ELSE zoom_target
    /\ dragging_time_slider' =
         IF e.type = "MOUSEBUTTONDOWN"
            /\ OnHandle(e.pos, slider_dt_x, slider_dt_y, dt_target, dt_min, dt_max)
         THEN TRUE
         ELSE IF e.type = "MOUSEBUTTONUP" THEN FALSE ELSE dragging_time_slider
    /\ dt_target' =
         IF e.type = "MOUSEMOTION" /\ dragging_time_slider
         THEN SliderValue(e.pos[1], slider_dt_x, dt_min, dt_max)
         ELSE dt_target
    /\ retargeted' = (retargeted \/ (frame > 0 /\ zoom_target' # zoom_target))
    /\ UNCHANGED <<pc, planetes_mass, etoile, position, speed, trail, rayon_influence,
                   state, dstate, sol_success, dt, zoom, camera_center,
                   func_zone_habitable, func_rayon_influence, r_int_pix, r_ext_pix,
                   frame, raised_by, hist>>

\* lines 299-300, once the frame's events are processed (event: none is being
\* processed any more)
Smooth ==
    /\ pc = "events"
    /\ zoom' = SmoothZoom(zoom, zoom_target)
    /\ dt' = SmoothDt(dt, dt_target)
    /\ event' = NoEvent
    /\ pc' = "physics"
    /\ UNCHANGED <<planetes_mass, etoile, position, speed, trail, rayon_influence,
                   state, dstate, sol_success, dt_target, dragging_time_slider,
                   zoom_target, dragging_slider, camera_center, camera_target,
                   func_zone_habitable, func_rayon_influence, r_int_pix, r_ext_pix,
                   running, frame, raised_by, retargeted, hist>>

\* lines 305-316: the integration over [1e-10, dt] and the write-back
Physics(mayFail) ==
    /\ pc = "physics"
    /\ \E sol \in solve_ivp(state, planetes_mass, etoile.mass, mayFail) :
         IF sol.kind = "raise"
         THEN /\ pc' = "raised"
              /\ raised_by' = "solve_ivp"
              /\ UNCHANGED <<state, dstate, sol_success, position, speed>>
         ELSE /\ state' = sol.y
              /\ sol_success' = sol.success
              /\ dstate' = equations_mouvement(state, planetes_mass, etoile.mass)
              /\ position' = PositionsOf(state', NPlanets)
              /\ speed' = SpeedsOf(state', NPlanets)
              /\ pc' = "camera"
              /\ UNCHANGED raised_by
    /\ UNCHANGED <<planetes_mass, etoile, trail, rayon_influence,
                   dt, dt_target, dragging_time_slider,
                   zoom, zoom_target, dragging_slider, camera_center, camera_target,
                   func_zone_habitable, func_rayon_influence, r_int_pix, r_ext_pix,
                   running, event, frame, retargeted, hist>>

\* lines 321-324
Camera ==
    /\ pc = "camera"
    /\ camera_center' = CameraCenter(camera_target, position, etoile)
    /\ pc' = "zone"
    /\ UNCHANGED <<planetes_mass, etoile, position, speed, trail, rayon_influence,
                   state, dstate, sol_success, dt, dt_target, dragging_time_slider,
                   zoom, zoom_target, dragging_slider, camera_target,
                   func_zone_habitable, func_rayon_influence, r_int_pix, r_ext_pix,
                   running, event, frame, raised_by, retargeted, hist>>

\* lines 339-351
ZoneHabitable(outcomes) ==
    /\ pc = "zone"
    /\ IF func_zone_habitable = "given"
       THEN \E res \in outcomes :
              LET z == ZoneHabitableFrame(res, zoom)
              IN /\ pc' = z.pc
                 /\ r_int_pix' = z.r_int_pix
                 /\ r_ext_pix' = z.r_ext_pix
                 /\ raised_by' = z.raised_by
       ELSE /\ pc' = "draw"
            /\ UNCHANGED <<r_int_pix, r_ext_pix, raised_by>>
    /\ UNCHANGED <<planetes_mass, etoile, position, speed, trail, rayon_influence,
                   state, dstate, sol_success, dt, dt_target, dragging_time_slider,
                   zoom, zoom_target, dragging_slider, camera_center, camera_target,
                   func_zone_habitable, func_rayon_influence,
                   running, event, frame, retargeted, hist>>

\* lines 367-426: the planets and their trails are drawn, the frame is shown
DrawPlanets ==
    /\ pc = "draw"
    /\ trail' = [i \in 1..NPlanets |-> TrailAppend(trail[i], position[i])]
    /\ hist' = [i \in 1..NPlanets |-> Append(hist[i], position[i])]
    /\ frame' = frame + 1
    /\ pc' = "loop"
    /\ UNCHANGED <<planetes_mass, etoile, position, speed, rayon_influence,
                   state, dstate, sol_success, dt, dt_target, dragging_time_slider,
                   zoom, zoom_target, dragging_slider, camera_center, camera_target,
                   func_zone_habitable, func_rayon_influence, r_int_pix, r_ext_pix,
                   running, event, raised_by, retargeted>>

\* The program under every configuration and both optional functions, with
\* the default time step, a user who quits and uses the buttons, and a solver
\* that may fail in any frame.
Init == InitWith(GoodConfigs \cup BadConfigs, {86400}, {"None", "given"})

Next ==
    \/ Setup(HookOutcomes)
    \/ LoopTop(MaxFrames)
    \/ \E e \in ClickEvents : HandleEvent(e)
    \/ Smooth
    \/ Physics(TRUE)
    \/ Camera
    \/ ZoneHabitable(HookOutcomes)
    \/ DrawPlanets

Spec == Init /\ [][Next]_vars

\* The program on one valid system without optional functions, with a user
\* who quits and uses the zoom slider.
TwoPlanets ==
    [pos |-> << <<F(4), F(0)>>, <<F(0), F(-6)>> >>, mass |-> <<1, 2>>, star |-> Star(16)]

InitZoom == InitWith({TwoPlanets}, {86400}, {"None"})

NextZoom ==
    \/ Setup(HookOutcomes)
    \/ LoopTop(ZoomFrames)
    \/ \E e \in ZoomEvents : HandleEvent(e)
    \/ Smooth
    \/ Physics(FALSE)
    \/ Camera
    \/ ZoneHabitable(HookOutcomes)
    \/ DrawPlanets

SpecZoom == InitZoom /\ [][NextZoom]_vars

\* The same under every dt argument, with a user who quits and uses the time
\* slider.
InitTime == InitWith({TwoPlanets}, DtArgs, {"None"})

NextTime ==
    \/ Setup(HookOutcomes)
    \/ LoopTop(TimeFrames)
    \/ \E e \in TimeEvents : HandleEvent(e)
    \/ Smooth
    \/ Physics(FALSE)
    \/ Camera
    \/ ZoneHabitable(HookOutcomes)
    \/ DrawPlanets

SpecTime == InitTime /\ [][NextTime]_vars

\* The long run: valid systems, a user who only quits, a solver that succeeds
\* whenever the right-hand side stays finite.
\* (Wide orbits: the planets stay within the integers' range for the whole run.)
WideOne == [pos |-> << <<F(9), F(0)>> >>, mass |-> <<1>>, star |-> Star(16)]

WideTwo ==
    [pos |-> << <<F(9), F(0)>>, <<F(0), F(-16)>> >>, mass |-> <<1, 2>>, star |-> Star(16)]

InitTrail == InitWith({WideOne, WideTwo}, {86400}, {"None"})

NextTrail ==
    \/ Setup(HookOutcomes)
    \/ LoopTop(TrailFrames)
    \/ HandleEvent(QuitEvent)
    \/ Smooth
    \/ Physics(FALSE)
    \/ Camera
    \/ ZoneHabitable(HookOutcomes)
    \/ DrawPlanets

SpecTrail == InitTrail /\ [][NextTrail]_vars

-----------------------------------------------------------------------------
(* The force model on its own: one call of equations_mouvement *)

\* coordinates of the state vectors the force model is called on
Coord == {-1, 0, 1}

\* every planet at a grid point, with one fixed velocity each
ForceState(ps) ==
    <<F(ps[1][1]), F(ps[1][2]), F(1), F(0),
      F(ps[2][1]), F(ps[2][2]), F(0), F(-1),
      F(ps[3][1]), F(ps[3][2]), F(-1), F(1)>>

InitForce ==
    /\ pc = "force_call"
    /\ planetes_mass = <<1, 2, 3>>
    /\ etoile = Star(16)
    /\ \E ps \in [1..3 -> Coord \X Coord] :
         /\ ps[3] \in {<<1, 1>>, ps[1]}
         /\ state = ForceState(ps)
         /\ position = PositionsOf(state, 3)
    /\ dt = 0
    /\ func_zone_habitable = "None"
    /\ func_rayon_influence = "None"
    /\ NoLocals

EvalForce ==
    /\ pc = "force_call"
    /\ dstate' = equations_mouvement(state, planetes_mass, etoile.mass)
    /\ pc' = "force_ret"
    /\ UNCHANGED <<planetes_mass, etoile, position, speed, trail, rayon_influence,
                   state, sol_success, dt, dt_target, dragging_time_slider,
                   zoom, zoom_target, dragging_slider, camera_center, camera_target,
                   func_zone_habitable, func_rayon_influence, r_int_pix, r_ext_pix,
                   running, event, frame, raised_by, retargeted, hist>>

NextForce == EvalForce

SpecForce == InitForce /\ [][NextForce]_vars

-----------------------------------------------------------------------------
(* Claims *)

\* play_orbit is past its setup (and this is no run of the force model alone)
InPlay == pc \in {"loop", "events", "physics", "camera", "zone", "draw", "returned"}

\* C1: after k completed frames the trail of every planet holds exactly
\* min(k, 400) positions, oldest first: the planet's positions at the last
\* min(k, 400) frames.
TrailHoldsLastFrames ==
    InPlay =>
      \A i \in 1..NPlanets :
        /\ Len(hist[i]) = frame
        /\ Len(trail[i]) = Min(frame, TrailMax)
        /\ \A k \in 1..Len(trail[i]) :
             trail[i][k] = hist[i][frame - Len(trail[i]) + k]

\* C1 witness: more than 400 frames are complete, the oldest positions are gone
TrailHasEvicted ==
    /\ pc = "loop"
    /\ frame > TrailMax + 1
    /\ NPlanets = 2
    /\ Len(trail[2]) = TrailMax
    /\ trail[2][1] = hist[2][frame - TrailMax + 1]
    /\ trail[2][1] # hist[2][1]
    /\ trail[2][TrailMax] = position[2]

Dist(a, b) == Abs(a - b)

\* a step of the smoothing (lines 299-300)
SmoothStep == pc = "events" /\ pc' = "physics"

FailedStepLeavesStateAlone ==
    [][(/\ pc = "physics" /\ pc' = "camera" /\ ~sol_success'
        /\ etoile.mass > 0
        /\ (\A i \in 1..NPlanets : planetes_mass[i] > 0))
         => /\ state' = state
            /\ position' = position
            /\ speed' = speed]_vars

\* C5: with a mass <= 0 or a planet at the star's position (its orbital
\* velocity is then not a number), no frame is ever integrated.
BadConfigNeverPlays ==
    (pc = "camera" /\ sol_success) =>
      /\ etoile.mass > 0
      /\ \A i \in 1..NPlanets : planetes_mass[i] > 0
      /\ AllFinite(state)

\* C6: a caller-supplied function that raises makes play_orbit raise; no frame
\* goes on with the radii it should have computed left at None.
HookErrorsPropagate ==
    /\ raised_by # "" => pc = "raised"
    /\ (InPlay /\ func_zone_habitable = "given")
         => r_int_pix # <<>> /\ r_ext_pix # <<>>
    /\ (InPlay /\ func_rayon_influence = "given")
         => \A i \in 1..NPlanets : rayon_influence[i] # <<>>

\* C6 witness: func_zone_habitable raised in the second frame
ZoneHookRaisedInFrame ==
    /\ pc = "raised"
    /\ frame = 1
    /\ raised_by = "func_zone_habitable in frame"
    /\ r_int_pix = <<>>

\* planets i and j of the state vector are at the same place
Coincide(st, i, j) ==
    /\ i # j
    /\ st[Idx(i) + 1] = st[Idx(j) + 1]
    /\ st[Idx(i) + 2] = st[Idx(j) + 2]

AtOrigin(st, i) == st[Idx(i) + 1] = F(0) /\ st[Idx(i) + 2] = F(0)

\* C7 as stated: wherever two planets coincide, the accelerations returned for
\* both are finite.
CoincidentPlanetsFinite ==
    pc = "force_ret" =>
      \A i, j \in 1..NPlanets :
        Coincide(state, i, j)
          => dstate[Idx(i) + 3].fin /\ dstate[Idx(i) + 4].fin

\* C7 as amended: where two planets coincide away from the origin (the star's
\* place, where the star term is 0/0), the accelerations returned for both are
\* finite and the pair contributes nothing: the acceleration of i is the one
\* it has with the mass of j set to zero.
CoincidentPlanetsOffOriginFinite ==
    pc = "force_ret" =>
      \A i, j \in 1..NPlanets :
        (Coincide(state, i, j) /\ ~AtOrigin(state, i))
          => /\ dstate[Idx(i) + 3].fin /\ dstate[Idx(i) + 4].fin
             /\ LET without == equations_mouvement(
                                 state, [planetes_mass EXCEPT ![j] = 0], etoile.mass)
                IN /\ dstate[Idx(i) + 3] = without[Idx(i) + 3]
                   /\ dstate[Idx(i) + 4] = without[Idx(i) + 4]

\* C7 witness: planets 1 and 2 coincide off the origin, planet 3 elsewhere
\* pulls on them
CoincidentPairEvaluated ==
    /\ pc = "force_ret"
    /\ Coincide(state, 1, 2)
    /\ ~AtOrigin(state, 1)
    /\ ~Coincide(state, 1, 3)
    /\ dstate[3].fin /\ dstate[3] # F(0)

\* C8: once the camera step of a frame has run, camera_center is the tracked
\* body's position of this frame, or (0, 0) with no body tracked.
CameraFollowsLiveTarget ==
    pc \in {"zone", "draw"} =>
      camera_center =
        IF camera_target = 0 THEN <<F(0), F(0)>>
        ELSE IF camera_target = NPlanets + 1 THEN etoile.position
        ELSE position[camera_target]

\* C8 witness: a tracked planet has moved since the frame before
CameraOnMovedPlanet ==
    /\ pc = "draw"
    /\ frame = 1
    /\ NPlanets = 2
    /\ camera_target = 2
    /\ sol_success
    /\ camera_center = position[2]
    /\ camera_center # hist[2][1]

\* C9: the state vector has 4 entries per planet and none for the star, slot
\* [4i, 4i+4) is planet i's position and speed, and the derivative has the
\* same layout: the velocity of planet i goes through into the first half of
\* its slot.
StateVectorLayout ==
    (InPlay \/ pc = "raised") =>
      /\ Len(state) = 4 * NPlanets
      /\ \A i \in 1..NPlanets :
           /\ SubSeq(state, 4 * (i - 1) + 1, 4 * i) = position[i] \o speed[i]
      /\ LET d == equations_mouvement(state, planetes_mass, etoile.mass)
         IN /\ Len(d) = 4 * NPlanets
            /\ \A i \in 1..NPlanets :
                 /\ d[4 * (i - 1) + 1] = state[4 * (i - 1) + 3]
                 /\ d[4 * (i - 1) + 2] = state[4 * (i - 1) + 4]

\* C9 witness: two planets after the physics step of the second frame
TwoPlanetsIntegrated ==
    /\ pc = "camera"
    /\ frame = 1
    /\ NPlanets = 2
    /\ sol_success
    /\ position[2] # hist[2][1]
    /\ state[5] = position[2][1]
    /\ state[8] = speed[2][2]

\* the first button that holds the point m, 0 if none does
InButton(k, m) ==
    /\ 50 <= m[1] /\ m[1] < 150
    /\ 120 + 30 * (k - 1) <= m[2] /\ m[2] < 145 + 30 * (k - 1)

FirstButtonAt(m) ==
    IF \E k \in 1..(NPlanets + 1) : InButton(k, m)
    THEN CHOOSE k \in 1..(NPlanets + 1) :
           InButton(k, m) /\ \A j \in 1..(k - 1) : ~InButton(j, m)
    ELSE 0

\* C10: camera_target starts as none; it changes only when a MOUSEBUTTONDOWN
\* inside a button is processed, to the body of the first button holding the
\* point; a press outside the buttons leaves it; once a body is tracked it is
\* never none again.
TrackedTargetTransitions ==
    /\ []((pc = "loop" /\ frame = 0) => camera_target = 0)
    /\ [][/\ camera_target' # camera_target
               => /\ pc = "events" /\ pc' = "events"
                  /\ event'.type = "MOUSEBUTTONDOWN"
                  /\ FirstButtonAt(event'.pos) # 0
          /\ (pc = "events" /\ pc' = "events" /\ event'.type = "MOUSEBUTTONDOWN")
               => camera_target' = IF FirstButtonAt(event'.pos) # 0
                                   THEN FirstButtonAt(event'.pos)
                                   ELSE camera_target
          /\ camera_target # 0 => camera_target' # 0]_vars

\* C10 witness: the star is tracked and a press between two buttons leaves it so
StarTrackedAfterMiss ==
    /\ pc = "events"
    /\ NPlanets = 2
    /\ camera_target = NPlanets + 1
    /\ event = [type |-> "MOUSEBUTTONDOWN", pos |-> <<60, 147>>]

====
